---- MODULE Spec2Model ----
(***************************************************************************)
(* Model of vina-box's docking post-processing (top_scoring_docking.py):   *)
(*   postprocess_vina_results : filter the lines of the Vina CSV, parse    *)
(*                              them and sort them by affinity             *)
(*   plot_sa_vs_affinity      : read both CSVs, normalize the ligand       *)
(*                              identifiers, inner-join the tables, and    *)
(*                              scan the sorted join for the Pareto front  *)
(* Texts (CSV cells, lines) are sequences of one-character strings over    *)
(* ASCII; a line of a file is kept with the newline that ends it, which    *)
(* the last line of a file may lack; it holds no carriage return, as the   *)
(* file is read in text mode.                                              *)
(* A float is kept exactly, as sign * m * 10^p with m free of trailing     *)
(* zeros, or as an infinity or NaN: the decimal that repr writes for it.   *)
(* Texts of numbers carry at most nine significant digits, so that above   *)
(* 2^-1022 and below the largest double a text is its own repr.            *)
(* The SCScore, NP_score and failed columns of the SA table only colour    *)
(* the plot; they are taken to hold numbers and are left out.              *)
(***************************************************************************)
EXTENDS Integers, Sequences, FiniteSets, TLC

VARIABLES
    pc,             \* position of the run in __main__ / the two functions
    lines,          \* the lines of vina_results.csv below its header
    sa_rows,        \* data rows of merged_scores.csv: <<filename text, SA_score text>>
    ranked,         \* vina_results_postprocessed.csv: NoFile or the rows written
    sa_df,          \* the DataFrame read from the SA score CSV
    vina_df,        \* the DataFrame read from the postprocessed Vina CSV
    merged,         \* the DataFrame `merged` (row i carries index i)
    pareto_points,  \* `merged` sorted by (SA_score, affinity), rows with their index
    pos,            \* number of rows of pareto_points the for-loop has visited
    min_y,          \* the running minimum of the scan
    pareto_front,   \* the (SA_score, affinity) pairs accepted so far
    pareto_indices, \* the index labels accepted so far
    pareto_csv,     \* pareto_front.csv: NoFile or the rows written
    plot_saved,     \* whether the plot image was saved
    stdout,         \* what plot_sa_vs_affinity printed
    raised          \* the exception that ended the run, or "none"

vars == <<pc, lines, sa_rows, ranked, sa_df, vina_df, merged, pareto_points,
          pos, min_y, pareto_front, pareto_indices, pareto_csv, plot_saved,
          stdout, raised>>

----------------------------------------------------------------------------
\* Bounds of the model.
MaxLines == 3
MaxSaRows == 2
MaxMerged == 4

\* A file of the run: not written, or written with these rows under its header.
NoFile == [written |-> FALSE, rows |-> <<>>]

File(rows) == [written |-> TRUE, rows |-> rows]

\* All sequences over S of length at most n.
SeqsUpTo(S, n) == UNION {[1..k -> S] : k \in 0..n}

SetMin(S) == CHOOSE x \in S : \A y \in S : x <= y

SetMax(S) == CHOOSE x \in S : \A y \in S : y <= x

----------------------------------------------------------------------------
\* Texts.
DigitChars == <<"0", "1", "2", "3", "4", "5", "6", "7", "8", "9">>

IsDigitChar(c) == c \in {DigitChars[d] : d \in 1..10}

DigitVal(c) == (CHOOSE d \in 1..10 : DigitChars[d] = c) - 1

UpperChars ==
    <<"A", "B", "C", "D", "E", "F", "G", "H", "I", "J", "K", "L", "M",
      "N", "O", "P", "Q", "R", "S", "T", "U", "V", "W", "X", "Y", "Z">>

LowerChars ==
    <<"a", "b", "c", "d", "e", "f", "g", "h", "i", "j", "k", "l", "m",
      "n", "o", "p", "q", "r", "s", "t", "u", "v", "w", "x", "y", "z">>

\* str.lower()
LowerText(t) ==
    [i \in 1..Len(t) |->
        IF t[i] \in {UpperChars[k] : k \in 1..26}
        THEN LowerChars[CHOOSE k \in 1..26 : UpperChars[k] = t[i]]
        ELSE t[i]]

\* The vertical tab, for which a string has no escape.
VT == ""

\* The whitespace of float() on an ASCII text (Py_ISSPACE), and of the number
\* parsers of pd.read_csv (isspace_ascii).
IsSpace(c) == c \in {" ", "\t", "\n", VT, "\f", "\r"}

\* The text without the whitespace before and behind it.
Strip(t) ==
    LET inked == {i \in 1..Len(t) : ~IsSpace(t[i])}
    IN  IF inked = {} THEN <<>> ELSE SubSeq(t, SetMin(inked), SetMax(inked))

Sdf == <<".", "s", "d", "f">>

\* str.isdigit(): non-empty and every character a digit.
IsDigit(s) == Len(s) > 0 /\ \A i \in 1..Len(s) : IsDigitChar(s[i])

\* int(text) of a digit string.
RECURSIVE StrToInt(_)
StrToInt(s) ==
    IF s = <<>> THEN 0
    ELSE 10 * StrToInt(SubSeq(s, 1, Len(s) - 1)) + DigitVal(s[Len(s)])

\* str(n) of a non-negative integer: its decimal digits, no leading zeros.
RECURSIVE IntToStr(_)
IntToStr(n) ==
    IF n < 10 THEN <<DigitChars[n + 1]>>
    ELSE IntToStr(n \div 10) \o <<DigitChars[(n % 10) + 1]>>

\* n copies of the character c.
Repeat(c, n) == [i \in 1..n |-> c]

\* ',' in line
HasComma(line) == "," \in {line[i] : i \in 1..Len(line)}

----------------------------------------------------------------------------
\* Floats.

RECURSIVE Canon(_, _, _)
Canon(s, m, p) ==
    IF m = 0 THEN [k |-> "num", s |-> s, m |-> 0, p |-> 0, t |-> <<>>]
    ELSE IF m % 10 = 0 THEN Canon(s, m \div 10, p + 1)
    ELSE [k |-> "num", s |-> s, m |-> m, p |-> p, t |-> <<>>]

NaN == [k |-> "nan", s |-> 1, m |-> 0, p |-> 0, t |-> <<>>]

Infinity(s) == [k |-> "inf", s |-> s, m |-> 0, p |-> 0, t |-> <<>>]

\* A cell of a column of dtype object that holds a str.
StrCell(t) == [k |-> "str", s |-> 1, m |-> 0, p |-> 0, t |-> t]

RECURSIVE Pow10(_)
Pow10(n) == IF n <= 0 THEN 1 ELSE 10 * Pow10(n - 1)

RECURSIVE NumDigits(_)
NumDigits(m) == IF m < 10 THEN 1 ELSE 1 + NumDigits(m \div 10)

\* -1, 0 or 1 as the float is negative, zero or positive.
Signum(a) == IF a.k = "num" /\ a.m = 0 THEN 0 ELSE a.s

\* a < b for two positive floats.
PosLt(a, b) ==
    IF a.k = "inf" THEN FALSE
    ELSE IF b.k = "inf" THEN TRUE
    ELSE LET da == NumDigits(a.m) + a.p
             db == NumDigits(b.m) + b.p
             q  == IF a.p < b.p THEN a.p ELSE b.p
         IN  IF da # db THEN da < db
             ELSE a.m * Pow10(a.p - q) < b.m * Pow10(b.p - q)

\* a < b on floats: false as soon as one of them is NaN.
FLt(a, b) ==
    IF a.k = "nan" \/ b.k = "nan" THEN FALSE
    ELSE IF Signum(a) # Signum(b) THEN Signum(a) < Signum(b)
    ELSE IF Signum(a) = 0 THEN FALSE
    ELSE IF Signum(a) = 1 THEN PosLt(a, b)
    ELSE PosLt(b, a)

\* A natural number of any size: its digits to the base 10^4, the first one
\* first; zero has none.
RECURSIVE BigOf(_)
BigOf(n) == IF n = 0 THEN <<>> ELSE Append(BigOf(n \div 10000), n % 10000)

Front(a) == SubSeq(a, 1, Len(a) - 1)

\* a + b + c, c a carry.
RECURSIVE BigAdd(_, _, _)
BigAdd(a, b, c) ==
    IF a = <<>> /\ b = <<>> THEN BigOf(c)
    ELSE LET x == IF a = <<>> THEN 0 ELSE a[Len(a)]
             y == IF b = <<>> THEN 0 ELSE b[Len(b)]
             t == x + y + c
         IN  Append(BigAdd(IF a = <<>> THEN a ELSE Front(a),
                           IF b = <<>> THEN b ELSE Front(b), t \div 10000),
                    t % 10000)

\* a * d + c for one digit d and a carry c.
RECURSIVE BigTimesDigit(_, _, _)
BigTimesDigit(a, d, c) ==
    IF a = <<>> THEN BigOf(c)
    ELSE LET t == a[Len(a)] * d + c
         IN  Append(BigTimesDigit(Front(a), d, t \div 10000), t % 10000)

RECURSIVE BigMul(_, _)
BigMul(a, b) ==
    IF b = <<>> THEN <<>>
    ELSE BigAdd(Append(BigMul(a, Front(b)), 0), BigTimesDigit(a, b[Len(b)], 0), 0)

\* The digits without leading zeros.
RECURSIVE BigTrim(_)
BigTrim(a) == IF a # <<>> /\ a[1] = 0 THEN BigTrim(Tail(a)) ELSE a

\* The decimal digits of a, leading zeros included.
DecimalDigits(a) ==
    [i \in 1..(4 * Len(a)) |->
        (a[((i - 1) \div 4) + 1] \div Pow10(3 - ((i - 1) % 4))) % 10]

\* 2^1074 / 10^284: the doubles below 2^-1022 are the multiples of 2^-1074.
StepsPerUnit == <<2024, 225, 3307, 3106, 1835, 2495, 3467, 1891, 7307, 495>>

\* 2^-1074 * 10^367
StepSize ==
    <<4940, 6564, 5841, 2465, 4417, 6568, 7928, 6822, 1372, 3650, 5980>>

\* digits / 10000^drop, rounded to an integer.
RoundedShift(digits, drop) ==
    BigTrim(SubSeq(BigAdd(digits, <<5000>> \o [i \in 1..(drop - 1) |-> 0], 0),
                   1, Len(digits) - drop))

\* m * 10^pad * 2^1074 / 10^(4 * drop), rounded to an integer.
ScaledSteps(m, pad, drop) ==
    RoundedShift(<<0>> \o BigMul(BigMul(StepsPerUnit, BigOf(m)), BigOf(Pow10(pad))),
                 drop)

\* The multiple of 2^-1074 nearest to m * 10^p, for m * 10^p below 2^-1022:
\* m * 10^p * 2^1074 rounded to an integer.
StepsOf(m, p) ==
    ScaledSteps(m, (4 - ((0 - (p + 284)) % 4)) % 4, ((0 - (p + 284)) + 3) \div 4)

\* The decimal of n digits nearest to the number of decimal digits v, scaled
\* by 10^-367, as <<m, p>>.
RoundedTo(v, n) ==
    <<StrToInt([i \in 1..n |-> DigitChars[v[i] + 1]]) + (IF v[n + 1] >= 5 THEN 1 ELSE 0),
      Len(v) - n - 367>>

\* The decimal of n digits nearest to k * 2^-1074.
NearestDecimal(k, n) == RoundedTo(BigTrim(DecimalDigits(BigMul(StepSize, k))), n)

\* repr of a double below 2^-1022: the shortest decimal that float() reads as
\* that double, and of those the nearest to it.
RECURSIVE ShortestDecimal(_, _)
ShortestFrom(k, n, d) ==
    IF n >= 9 \/ StepsOf(d[1], d[2]) = k THEN d ELSE ShortestDecimal(k, n + 1)

ShortestDecimal(k, n) == ShortestFrom(k, n, NearestDecimal(k, n))

SubnormalOf(s, d) == Canon(s, d[1], d[2])

\* The float nearest to the decimal c, whose first digit stands for 10^e and
\* whose first nine digits are m9: an infinity from 2^1024 - 2^970 on, zero up
\* to 2^-1075, a multiple of 2^-1074 below 2^-1022.
Rounded(c, e, m9) ==
    IF c.m = 0 THEN c
    ELSE IF e > 308 \/ (e = 308 /\ m9 > 179769313) THEN Infinity(c.s)
    ELSE IF e < 0 - 324 \/ (e = 0 - 324 /\ m9 <= 247032822) THEN Canon(c.s, 0, 0)
    ELSE IF e < 0 - 308 \/ (e = 0 - 308 /\ m9 <= 222507385)
    THEN SubnormalOf(c.s, ShortestDecimal(StepsOf(c.m, c.p), 1))
    ELSE c

Scaled(c) == Rounded(c, NumDigits(c.m) + c.p - 1, c.m * Pow10(9 - NumDigits(c.m)))

\* The float nearest to s * m * 10^p (s is 1 or -1, m is not negative).  A
\* float is kept as the decimal repr writes for it.
Number(s, m, p) == Scaled(Canon(s, m, p))

\* a == b on floats: -0.0 equals 0.0, NaN equals nothing.
FEq(a, b) == a.k # "nan" /\ b.k # "nan" /\ ~FLt(a, b) /\ ~FLt(b, a)

FLe(a, b) == FLt(a, b) \/ FEq(a, b)

\* The text without one leading sign.
Unsigned(t) == IF t # <<>> /\ t[1] \in {"+", "-"} THEN Tail(t) ELSE t

SignOf(t) == IF t # <<>> /\ t[1] = "-" THEN 0 - 1 ELSE 1

\* Digits, with single underscores between them.
IsDigitPart(s) ==
    /\ s # <<>>
    /\ IsDigitChar(s[1])
    /\ IsDigitChar(s[Len(s)])
    /\ \A i \in 1..Len(s) : IsDigitChar(s[i]) \/ s[i] = "_"
    /\ \A i \in 1..(Len(s) - 1) : s[i] # "_" \/ s[i + 1] # "_"

DotsOf(b) == {i \in 1..Len(b) : b[i] = "."}

\* digits, digits. , digits.digits or .digits
IsDecimal(b) ==
    IF DotsOf(b) = {} THEN IsDigitPart(b)
    ELSE /\ Cardinality(DotsOf(b)) = 1
         /\ LET d  == CHOOSE i \in DotsOf(b) : TRUE
                ip == SubSeq(b, 1, d - 1)
                fp == SubSeq(b, d + 1, Len(b))
            IN  \/ ip = <<>> /\ IsDigitPart(fp)
                \/ IsDigitPart(ip) /\ (fp = <<>> \/ IsDigitPart(fp))

ExpMarks(u) == {i \in 1..Len(u) : u[i] \in {"e", "E"}}

\* The text before the exponent mark, and the text after it.
MantissaOf(u) == IF ExpMarks(u) = {} THEN u ELSE SubSeq(u, 1, SetMin(ExpMarks(u)) - 1)

ExponentOf(u) == IF ExpMarks(u) = {} THEN <<>> ELSE SubSeq(u, SetMin(ExpMarks(u)) + 1, Len(u))

\* An unsigned decimal number with an optional exponent.
IsNumberText(u) ==
    /\ IsDecimal(MantissaOf(u))
    /\ ExpMarks(u) # {} => IsDigitPart(Unsigned(ExponentOf(u)))

InfWords == {<<"i", "n", "f">>, <<"i", "n", "f", "i", "n", "i", "t", "y">>}

NanWord == <<"n", "a", "n">>

\* A digit string without its leading zeros, and without its trailing ones.
RECURSIVE DropLeadingZeros(_)
DropLeadingZeros(ds) ==
    IF ds # <<>> /\ ds[1] = "0" THEN DropLeadingZeros(Tail(ds)) ELSE ds

RECURSIVE DropTrailingZeros(_)
DropTrailingZeros(ds) ==
    IF ds # <<>> /\ ds[Len(ds)] = "0" THEN DropTrailingZeros(Front(ds)) ELSE ds

\* The exponent written in a text; beyond six digits every float is an
\* infinity or a zero, as it is at 999999.
ExponentValue(ex) ==
    LET ds == DropLeadingZeros(SelectSeq(Unsigned(ex), IsDigitChar))
    IN  SignOf(ex) * (IF Len(ds) > 6 THEN 999999 ELSE StrToInt(ds))

\* The value of an unsigned number text, under the sign s.
NumberValue(s, u) ==
    LET mant == MantissaOf(u)
        frac == IF DotsOf(mant) = {} THEN <<>>
                ELSE SubSeq(mant, (CHOOSE i \in DotsOf(mant) : TRUE) + 1, Len(mant))
        ds   == DropLeadingZeros(SelectSeq(mant, IsDigitChar))
        core == DropTrailingZeros(ds)
    IN  Number(s, StrToInt(core),
               ExponentValue(ExponentOf(u)) - Len(SelectSeq(frac, IsDigitChar))
                   + (Len(ds) - Len(core)))

\* float(text) succeeds: whitespace around an optional sign and a number, an
\* infinity or a NaN.
IsFloatText(t) ==
    LET u == Unsigned(Strip(t))
    IN  IF LowerText(u) \in InfWords \cup {NanWord} THEN TRUE ELSE IsNumberText(u)

\* float(text)
PyFloat(t) ==
    LET st == Strip(t)
        u  == Unsigned(st)
    IN  IF LowerText(u) = NanWord THEN NaN
        ELSE IF LowerText(u) \in InfWords THEN Infinity(SignOf(st))
        ELSE NumberValue(SignOf(st), u)

\* repr of a finite float: positional for 1e-4 <= |x| < 1e16, else with an
\* exponent of at least two digits.
FloatDigits(a) ==
    LET ds  == IntToStr(a.m)
        n   == Len(ds)
        dpt == n + a.p
    IN  IF a.m = 0 THEN <<"0", ".", "0">>
        ELSE IF dpt > 16 \/ dpt < 0 - 3
        THEN LET e == dpt - 1
                 es == IntToStr(IF e < 0 THEN 0 - e ELSE e)
             IN  <<ds[1]>> \o (IF n > 1 THEN <<".">> \o Tail(ds) ELSE <<>>)
                   \o <<"e", IF e < 0 THEN "-" ELSE "+">>
                   \o (IF Len(es) < 2 THEN <<"0">> ELSE <<>>) \o es
        ELSE IF dpt <= 0 THEN <<"0", ".">> \o Repeat("0", 0 - dpt) \o ds
        ELSE IF dpt >= n THEN ds \o Repeat("0", dpt - n) \o <<".", "0">>
        ELSE SubSeq(ds, 1, dpt) \o <<".">> \o SubSeq(ds, dpt + 1, n)

\* str(x) of a float
FloatToStr(a) ==
    IF a.k = "nan" THEN NanWord
    ELSE (IF a.s < 0 THEN <<"-">> ELSE <<>>)
           \o (IF a.k = "inf" THEN <<"i", "n", "f">> ELSE FloatDigits(a))

----------------------------------------------------------------------------
\* The csv module.

\* The characters a reader is fed: the lines one after the other.
RECURSIVE CharsOf(_)
CharsOf(ls) == IF ls = <<>> THEN <<>> ELSE Head(ls) \o CharsOf(Tail(ls))

\* csv.reader (dialect excel) from the i-th character on: the state of the
\* parser, the field and the fields of the record under way, the records read.
\* A quoted field runs to its closing quote, over commas and newlines; input
\* that ends inside a record ends the record.
RECURSIVE CsvScan(_, _, _, _, _, _)
CsvScan(chars, i, state, field, fields, records) ==
    IF i > Len(chars)
    THEN IF state = "start_record"
         THEN records
         ELSE Append(records, Append(fields, field))
    ELSE LET c == chars[i]
         IN  IF state = "start_record" /\ c = "\n"
             THEN CsvScan(chars, i + 1, "start_record", <<>>, <<>>, records)
             ELSE IF state \in {"start_record", "start_field"}
             THEN IF c = "\n"
                  THEN CsvScan(chars, i + 1, "start_record", <<>>, <<>>,
                               Append(records, Append(fields, <<>>)))
                  ELSE IF c = "\""
                  THEN CsvScan(chars, i + 1, "in_quoted_field", <<>>, fields, records)
                  ELSE IF c = ","
                  THEN CsvScan(chars, i + 1, "start_field", <<>>,
                               Append(fields, <<>>), records)
                  ELSE CsvScan(chars, i + 1, "in_field", <<c>>, fields, records)
             ELSE IF state = "in_field"
             THEN IF c = "\n"
                  THEN CsvScan(chars, i + 1, "start_record", <<>>, <<>>,
                               Append(records, Append(fields, field)))
                  ELSE IF c = ","
                  THEN CsvScan(chars, i + 1, "start_field", <<>>,
                               Append(fields, field), records)
                  ELSE CsvScan(chars, i + 1, "in_field", Append(field, c),
                               fields, records)
             ELSE IF state = "in_quoted_field"
             THEN IF c = "\""
                  THEN CsvScan(chars, i + 1, "quote_in_quoted_field", field,
                               fields, records)
                  ELSE CsvScan(chars, i + 1, "in_quoted_field", Append(field, c),
                               fields, records)
             ELSE IF c = "\""
                  THEN CsvScan(chars, i + 1, "in_quoted_field", Append(field, c),
                               fields, records)
                  ELSE IF c = ","
                  THEN CsvScan(chars, i + 1, "start_field", <<>>,
                               Append(fields, field), records)
                  ELSE IF c = "\n"
                  THEN CsvScan(chars, i + 1, "start_record", <<>>, <<>>,
                               Append(records, Append(fields, field)))
                  ELSE CsvScan(chars, i + 1, "in_field", Append(field, c),
                               fields, records)

\* The records of the lines that follow the header.
ReadRecords(ls) == CsvScan(CharsOf(ls), 1, "start_record", <<>>, <<>>, <<>>)

\* csv.writer (QUOTE_MINIMAL): a field holding a comma, a quote or a line
\* break is written between quotes, its quotes doubled.
RECURSIVE DoubleQuotes(_)
DoubleQuotes(t) ==
    IF t = <<>> THEN <<>>
    ELSE (IF Head(t) = "\"" THEN <<"\"", "\"">> ELSE <<Head(t)>>)
           \o DoubleQuotes(Tail(t))

WriteField(t) ==
    IF {t[i] : i \in 1..Len(t)} \cap {",", "\"", "\n", "\r"} # {}
    THEN <<"\"">> \o DoubleQuotes(t) \o <<"\"">>
    ELSE t

----------------------------------------------------------------------------
\* postprocess_vina_results

\* line 21: keep the lines that hold a comma.
FilterLines(ls) == SelectSeq(ls, HasComma)

\* line 24, csv.DictReader under the header ligand,affinity_kcal/mol: a record
\* of one field has no affinity (None), and the fields beyond the second are
\* kept under the key None.
ParseRow(rec) ==
    [ligand  |-> rec[1],
     aff     |-> IF Len(rec) >= 2 THEN rec[2] ELSE <<>>,
     missing |-> Len(rec) < 2,
     rest    |-> SubSeq(rec, 3, Len(rec))]

\* lines 24-25
ParseRows(ls) ==
    LET recs == ReadRecords(ls)
    IN  [i \in 1..Len(recs) |-> ParseRow(recs[i])]

\* line 26: the key of a row.
SortKey(row) == PyFloat(row.aff)

\* line 26: what float() raises on the affinity of a row.
KeyFailure(row) ==
    IF row.missing THEN "TypeError"
    ELSE IF IsFloatText(row.aff) THEN "none"
    ELSE "ValueError"

\* line 26: the exception of the first row whose key cannot be computed.
SortError(rows) ==
    LET bad == {i \in 1..Len(rows) : KeyFailure(rows[i]) # "none"}
    IN  IF bad = {} THEN "none" ELSE KeyFailure(rows[SetMin(bad)])

\* list.sort on fewer than 64 rows (CPython's binarysort): the position of a
\* key among keys in order, by bisection on key < keys[p].
RECURSIVE Bisect(_, _, _, _)
Bisect(key, keys, l, r) ==
    IF l >= r THEN l
    ELSE LET p == l + ((r - l) \div 2)
         IN  IF FLt(key, keys[p + 1]) THEN Bisect(key, keys, l, p)
             ELSE Bisect(key, keys, p + 1, r)

\* Where list.sort puts a row among the rows already in order: behind the
\* rows of equal key (the sort is stable).
InsertPos(key, keys) == Bisect(key, keys, 0, Len(keys))

InsertRow(row, sorted) ==
    LET p == InsertPos(SortKey(row), [j \in 1..Len(sorted) |-> SortKey(sorted[j])])
    IN  SubSeq(sorted, 1, p) \o <<row>> \o SubSeq(sorted, p + 1, Len(sorted))

\* list.sort, count_run: the length of the run the rows start with, which
\* descends strictly or does not descend at all.
RECURSIVE RunLength(_, _, _)
RunLength(rows, i, desc) ==
    IF i > Len(rows) THEN Len(rows)
    ELSE IF FLt(SortKey(rows[i]), SortKey(rows[i - 1])) = desc
    THEN RunLength(rows, i + 1, desc)
    ELSE i - 1

Reverse(s) == [i \in 1..Len(s) |-> s[Len(s) + 1 - i]]

RECURSIVE InsertFrom(_, _, _)
InsertFrom(rows, i, sorted) ==
    IF i > Len(rows) THEN sorted
    ELSE InsertFrom(rows, i + 1, InsertRow(rows[i], sorted))

\* line 26: the first run, turned round when it descends, then the other rows
\* inserted one by one.
SortRows(rows) ==
    IF Len(rows) < 2 THEN rows
    ELSE LET desc == FLt(SortKey(rows[2]), SortKey(rows[1]))
             n    == RunLength(rows, 3, desc)
             run  == SubSeq(rows, 1, n)
         IN  InsertFrom(rows, n + 1, IF desc THEN Reverse(run) ELSE run)

\* line 32, DictWriter.writerows: the rows are written one by one, up to the
\* first row that holds fields under the key None.
WrittenRows(rows) ==
    LET extra == {i \in 1..Len(rows) : rows[i].rest # <<>>}
    IN  IF extra = {} THEN rows ELSE SubSeq(rows, 1, SetMin(extra) - 1)

\* lines 18-32: the exception that ends the function and the file it leaves.
RankOutcome(ls) ==
    LET rows   == ParseRows(FilterLines(ls))
        sorted == SortRows(rows)
    IN  IF SortError(rows) # "none"
        THEN [raised |-> SortError(rows), file |-> NoFile]
        ELSE IF WrittenRows(sorted) # sorted
        THEN [raised |-> "ValueError", file |-> File(WrittenRows(sorted))]
        ELSE [raised |-> "none", file |-> File(sorted)]

\* lines 18-32, every key parses and every row has two fields: the sorted rows
\* are written.
Postprocess ==
    /\ pc = "main"
    /\ RankOutcome(lines).raised = "none"
    /\ ranked' = RankOutcome(lines).file
    /\ pc' = "plot"
    /\ UNCHANGED <<lines, sa_rows, sa_df, vina_df, merged, pareto_points, pos,
                   min_y, pareto_front, pareto_indices, pareto_csv, plot_saved,
                   stdout, raised>>

\* line 26, float() raises: nothing is written and the run ends.
PostprocessFail ==
    /\ pc = "main"
    /\ SortError(ParseRows(FilterLines(lines))) # "none"
    /\ raised' = RankOutcome(lines).raised
    /\ pc' = "failed"
    /\ UNCHANGED <<lines, sa_rows, ranked, sa_df, vina_df, merged, pareto_points,
                   pos, min_y, pareto_front, pareto_indices, pareto_csv,
                   plot_saved, stdout>>

\* line 32, writerows raises ValueError on a row of more than two fields: the
\* file holds the header and the rows sorted ahead of that row, and the run
\* ends.
WriteFail ==
    /\ pc = "main"
    /\ SortError(ParseRows(FilterLines(lines))) = "none"
    /\ RankOutcome(lines).raised # "none"
    /\ raised' = RankOutcome(lines).raised
    /\ ranked' = RankOutcome(lines).file
    /\ pc' = "failed"
    /\ UNCHANGED <<lines, sa_rows, sa_df, vina_df, merged, pareto_points, pos,
                   min_y, pareto_front, pareto_indices, pareto_csv, plot_saved,
                   stdout>>

----------------------------------------------------------------------------
\* pd.read_csv (lines 38-39)

\* The cells read as missing values.
NaTokens ==
    {<<>>,
     <<"#", "N", "/", "A">>,
     <<"#", "N", "/", "A", " ", "N", "/", "A">>,
     <<"#", "N", "A">>,
     <<"-", "1", ".", "#", "I", "N", "D">>,
     <<"-", "1", ".", "#", "Q", "N", "A", "N">>,
     <<"-", "N", "a", "N">>,
     <<"-", "n", "a", "n">>,
     <<"1", ".", "#", "I", "N", "D">>,
     <<"1", ".", "#", "Q", "N", "A", "N">>,
     <<"<", "N", "A", ">">>,
     <<"N", "/", "A">>,
     <<"N", "A">>,
     <<"N", "U", "L", "L">>,
     <<"N", "a", "N">>,
     <<"N", "o", "n", "e">>,
     <<"n", "/", "a">>,
     <<"n", "a", "n">>,
     <<"n", "u", "l", "l">>}

IsNa(c) == c \in NaTokens

TrueWords == {<<"T", "r", "u", "e">>, <<"T", "R", "U", "E">>, <<"t", "r", "u", "e">>}

FalseWords ==
    {<<"F", "a", "l", "s", "e">>, <<"F", "A", "L", "S", "E">>,
     <<"f", "a", "l", "s", "e">>}

\* A cell the parser converts to int64: whitespace around a sign and digits.
IsPdInt(c) == IsDigit(Unsigned(Strip(c)))

\* A cell the parser converts to float64: whitespace around a sign and a
\* decimal number with an optional exponent that is no overflow, or a signed
\* inf or infinity.
IsPdFloat(c) ==
    LET u == Unsigned(Strip(c))
    IN  IF LowerText(Unsigned(c)) \in InfWords THEN TRUE
        ELSE /\ IsNumberText(u)
             /\ "_" \notin {u[i] : i \in 1..Len(u)}
             /\ NumberValue(1, u).k # "inf"

\* The float64 of a cell of a numeric column.
PdFloat(c) ==
    IF IsNa(c) THEN NaN
    ELSE IF LowerText(Unsigned(c)) \in InfWords THEN Infinity(SignOf(c))
    ELSE NumberValue(SignOf(Strip(c)), Unsigned(Strip(c)))

\* The dtype inferred for a column: int64 when every cell is an integer,
\* float64 when every cell is a number or missing, bool for true/false words,
\* object otherwise.
ColumnKind(cells) ==
    LET given == {i \in 1..Len(cells) : ~IsNa(cells[i])}
    IN  IF cells = <<>> THEN "object"
        ELSE IF given = {} THEN "float"
        ELSE IF given = 1..Len(cells) /\ \A i \in given : IsPdInt(cells[i])
        THEN "int"
        ELSE IF \A i \in given : IsPdFloat(cells[i]) THEN "float"
        ELSE IF \A i \in given : cells[i] \in TrueWords \cup FalseWords THEN "bool"
        ELSE "object"

\* An identifier column: every cell with the type it is read with.
ReadIdColumn(cells) ==
    LET kind == ColumnKind(cells)
    IN  [i \in 1..Len(cells) |->
            IF IsNa(cells[i]) THEN [kind |-> "float", num |-> NaN, text |-> <<>>]
            ELSE IF kind \in {"int", "float"}
            THEN [kind |-> kind, num |-> PdFloat(cells[i]), text |-> <<>>]
            ELSE IF kind = "bool"
            THEN [kind |-> "bool", num |-> NaN,
                  text |-> IF cells[i] \in TrueWords THEN <<"T", "r", "u", "e">>
                           ELSE <<"F", "a", "l", "s", "e">>]
            ELSE [kind |-> "str", num |-> NaN, text |-> cells[i]]]

\* The column is read with a numeric dtype.
NumericColumn(cells) == ColumnKind(cells) \in {"int", "float"}

\* A score column: floats, and for a column of dtype object its texts.
ReadScoreColumn(cells) ==
    LET kind == ColumnKind(cells)
    IN  [i \in 1..Len(cells) |->
            IF IsNa(cells[i]) THEN NaN
            ELSE IF kind \in {"int", "float"} THEN PdFloat(cells[i])
            ELSE IF kind = "bool"
            THEN Number(1, IF cells[i] \in TrueWords THEN 1 ELSE 0, 0)
            ELSE StrCell(cells[i])]

\* line 39: the cells pd.read_csv finds in the file written at lines 29-32,
\* where the \r\n behind a row is read as one line end.
WrittenCells(rows) ==
    ReadRecords([i \in 1..Len(rows) |->
                    WriteField(rows[i].ligand) \o <<",">> \o WriteField(rows[i].aff)
                        \o <<"\n">>])

----------------------------------------------------------------------------
\* plot_sa_vs_affinity: normalizing and joining the tables

\* str(x) of an identifier cell.
PyStr(x) ==
    IF x.kind = "int"
    THEN (IF x.num.s < 0 /\ x.num.m # 0 THEN <<"-">> ELSE <<>>)
           \o IntToStr(x.num.m) \o Repeat("0", x.num.p)
    ELSE IF x.kind = "float" THEN FloatToStr(x.num)
    ELSE x.text

\* Variant: the suffix appended to every identifier.
NormalizeAlways(x) == PyStr(x) \o Sdf

\* line 43: the lambda applied to vina_df['ligand'].
NormalizeLigand(x) == IF IsDigit(PyStr(x)) THEN PyStr(x) \o Sdf ELSE PyStr(x)

\* lines 38, 46: the SA frame, its filename column cast to str.
SaFrame(rows) ==
    LET ids    == ReadIdColumn([i \in 1..Len(rows) |-> rows[i].filename])
        scores == ReadScoreColumn([i \in 1..Len(rows) |-> rows[i].SA_score])
    IN  [i \in 1..Len(rows) |-> [filename |-> PyStr(ids[i]), SA_score |-> scores[i]]]

\* lines 39, 42-44, 47: the Vina frame, its ligand column normalized.
VinaFrame(rows) ==
    LET cells  == WrittenCells(rows)
        ids    == ReadIdColumn([i \in 1..Len(cells) |-> cells[i][1]])
        scores == ReadScoreColumn([i \in 1..Len(cells) |-> cells[i][2]])
    IN  [i \in 1..Len(cells) |->
            [ligand |-> NormalizeLigand(ids[i]), affinity |-> scores[i]]]

\* line 49: one row of the join.
JoinRow(l, r) ==
    [filename |-> l.filename, SA_score |-> l.SA_score,
     ligand |-> r.ligand, affinity |-> r.affinity]

\* Variant: a join that keeps one right row per left row.
FirstMatchOnly(l, right) ==
    LET m == SelectSeq(right, LAMBDA r : r.ligand = l.filename)
    IN  IF m = <<>> THEN <<>> ELSE <<JoinRow(l, m[1])>>

\* line 49: the rows a left row yields, one per right row of the same key, in
\* the right frame's order.
RowMatches(l, right) ==
    LET m == SelectSeq(right, LAMBDA r : r.ligand = l.filename)
    IN  [j \in 1..Len(m) |-> JoinRow(l, m[j])]

\* line 49: pd.merge(how='inner'), in the order of the left keys.
RECURSIVE MergeFrames(_, _)
MergeFrames(left, right) ==
    IF left = <<>> THEN <<>>
    ELSE MergeFrames(SubSeq(left, 1, Len(left) - 1), right)
             \o RowMatches(left[Len(left)], right)

\* Variant: the emptiness check left out.
EmptyCheckMissing(m) == FALSE

\* line 51: merged.empty
IsEmpty(m) == Len(m) = 0

NoMatchWarning ==
    "Warning: No matching rows after merging. Check that 'filename' in SA score CSV matches 'ligand' in Vina CSV (with .sdf appended)."

\* lines 51-53: what the function prints for a join.
PlotReport(m) == IF IsEmpty(m) THEN <<NoMatchWarning>> ELSE <<>>

\* lines 79-85: a score that is a str cannot be the centre of a Wedge.
\* lines 122-131: the idxmin of a column without a number is NaN, which is no
\* index label for merged.loc (pandas 1 and 2; pandas 3 raises ValueError in
\* idxmin itself: the run ends with an exception at the same place).
PlotError(m) ==
    IF {i \in 1..Len(m) : m[i].SA_score.k = "str" \/ m[i].affinity.k = "str"} # {}
    THEN "TypeError"
    ELSE IF \/ {i \in 1..Len(m) : m[i].SA_score.k # "nan"} = {}
            \/ {i \in 1..Len(m) : m[i].affinity.k # "nan"} = {}
    THEN "KeyError"
    ELSE "none"

\* lines 38-49
Merge ==
    /\ pc = "plot"
    /\ sa_df' = SaFrame(sa_rows)
    /\ vina_df' = VinaFrame(ranked.rows)
    /\ merged' = MergeFrames(sa_df', vina_df')
    /\ pc' = "merged"
    /\ UNCHANGED <<lines, sa_rows, ranked, pareto_points, pos, min_y,
                   pareto_front, pareto_indices, pareto_csv, plot_saved,
                   stdout, raised>>

\* lines 51-53: the join is empty, warn and return.
WarnNoMatch ==
    /\ pc = "merged"
    /\ IsEmpty(merged)
    /\ stdout' = PlotReport(merged)
    /\ pc' = "done"
    /\ UNCHANGED <<lines, sa_rows, ranked, sa_df, vina_df, merged, pareto_points,
                   pos, min_y, pareto_front, pareto_indices, pareto_csv,
                   plot_saved, raised>>

\* lines 55-145, the scatter plot and its labels.
Prepare ==
    /\ pc = "merged"
    /\ ~IsEmpty(merged)
    /\ PlotError(merged) = "none"
    /\ stdout' = PlotReport(merged)
    /\ pc' = "pareto"
    /\ UNCHANGED <<lines, sa_rows, ranked, sa_df, vina_df, merged, pareto_points,
                   pos, min_y, pareto_front, pareto_indices, pareto_csv,
                   plot_saved, raised>>

\* lines 79-85, 122-131: the exception ends the run before the frontier is
\* computed.
PrepareFail ==
    /\ pc = "merged"
    /\ ~IsEmpty(merged)
    /\ PlotError(merged) # "none"
    /\ raised' = PlotError(merged)
    /\ pc' = "error"
    /\ UNCHANGED <<lines, sa_rows, ranked, sa_df, vina_df, merged, pareto_points,
                   pos, min_y, pareto_front, pareto_indices, pareto_csv,
                   plot_saved, stdout>>

----------------------------------------------------------------------------
\* plot_sa_vs_affinity: the Pareto frontier

\* The order sort_values gives the values of one column: ascending, the
\* missing values (NaN) last.
ColLt(a, b) == IF a.k = "nan" THEN FALSE ELSE IF b.k = "nan" THEN TRUE ELSE FLt(a, b)

ColEq(a, b) == IF a.k = "nan" \/ b.k = "nan" THEN a.k = b.k ELSE FEq(a, b)

\* Variant: the sort descending.
PointLeqDescending(a, b) ==
    IF ColEq(a.SA_score, b.SA_score) THEN ~ColLt(a.affinity, b.affinity)
    ELSE ColLt(b.SA_score, a.SA_score)

\* Variant: the sort by SA_score alone, as the comment of line 148 has it.
PointLeqSAOnly(a, b) == ~ColLt(b.SA_score, a.SA_score)

\* line 149: the order of sort_values(['SA_score', 'affinity_kcal/mol']).
PointLeq(a, b) ==
    IF ColEq(a.SA_score, b.SA_score) THEN ~ColLt(b.affinity, a.affinity)
    ELSE ColLt(a.SA_score, b.SA_score)

\* line 149: a row goes behind every row that is not greater (rows with equal
\* keys keep their order in `merged`).
InsertPoint(p, sorted) ==
    LET k == Cardinality({j \in 1..Len(sorted) : PointLeq(sorted[j], p)})
    IN  SubSeq(sorted, 1, k) \o <<p>> \o SubSeq(sorted, k + 1, Len(sorted))

RECURSIVE SortPoints(_)
SortPoints(points) ==
    IF points = <<>> THEN <<>>
    ELSE InsertPoint(points[Len(points)],
                     SortPoints(SubSeq(points, 1, Len(points) - 1)))

\* The rows of `merged` with their index labels.
Indexed(m) ==
    [i \in 1..Len(m) |->
        [idx |-> i, SA_score |-> m[i].SA_score, affinity |-> m[i].affinity]]

\* Variant: the comparison not strict.
AcceptsNonStrict(y, m) == FLe(y, m)

\* Variant: the comparison turned round.
AcceptsAbove(y, m) == IF m = Infinity(1) THEN TRUE ELSE FLt(m, y)

\* line 154: row['affinity_kcal/mol'] < min_y
Accepts(y, m) == FLt(y, m)

\* lines 149-152
StartScan ==
    /\ pc = "pareto"
    /\ pareto_points' = SortPoints(Indexed(merged))
    /\ pareto_front' = <<>>
    /\ pareto_indices' = <<>>
    /\ min_y' = Infinity(1)
    /\ pos' = 0
    /\ pc' = "scan"
    /\ UNCHANGED <<lines, sa_rows, ranked, sa_df, vina_df, merged, pareto_csv,
                   plot_saved, stdout, raised>>

\* lines 153-157, one iteration whose row is accepted.
ScanAccept ==
    /\ pc = "scan"
    /\ pos < Len(pareto_points)
    /\ Accepts(pareto_points[pos + 1].affinity, min_y)
    /\ pareto_front' = Append(pareto_front, <<pareto_points[pos + 1].SA_score,
                                              pareto_points[pos + 1].affinity>>)
    /\ pareto_indices' = Append(pareto_indices, pareto_points[pos + 1].idx)
    /\ min_y' = pareto_points[pos + 1].affinity
    /\ pos' = pos + 1
    /\ UNCHANGED <<pc, lines, sa_rows, ranked, sa_df, vina_df, merged,
                   pareto_points, pareto_csv, plot_saved, stdout, raised>>

\* lines 153-154, one iteration whose row is passed over.
ScanSkip ==
    /\ pc = "scan"
    /\ pos < Len(pareto_points)
    /\ ~Accepts(pareto_points[pos + 1].affinity, min_y)
    /\ pos' = pos + 1
    /\ UNCHANGED <<pc, lines, sa_rows, ranked, sa_df, vina_df, merged,
                   pareto_points, min_y, pareto_front, pareto_indices,
                   pareto_csv, plot_saved, stdout, raised>>

\* lines 158-182: the frontier rows merged.loc[pareto_indices] are written
\* when there is a frontier, and the plot is saved.
SavePareto ==
    /\ pc = "scan"
    /\ pos = Len(pareto_points)
    /\ pareto_csv' =
          IF pareto_front # <<>>
          THEN File([k \in 1..Len(pareto_indices) |-> merged[pareto_indices[k]]])
          ELSE pareto_csv
    /\ plot_saved' = TRUE
    /\ pc' = "done"
    /\ UNCHANGED <<lines, sa_rows, ranked, sa_df, vina_df, merged, pareto_points,
                   pos, min_y, pareto_front, pareto_indices, stdout, raised>>

----------------------------------------------------------------------------
\* The runs.

InitCommon ==
    /\ ranked = NoFile
    /\ sa_df = <<>>
    /\ vina_df = <<>>
    /\ pareto_points = <<>>
    /\ pos = 0
    /\ min_y = Infinity(1)
    /\ pareto_front = <<>>
    /\ pareto_indices = <<>>
    /\ pareto_csv = NoFile
    /\ plot_saved = FALSE
    /\ stdout = <<>>
    /\ raised = "none"

Line(ligand, aff) == ligand \o <<",">> \o aff \o <<"\n">>

\* The files of at most n lines over S, with and without the newline behind
\* the last line.
FilesUpTo(S, n) ==
    LET ended == SeqsUpTo(S, n)
    IN  ended \cup {[ls EXCEPT ![Len(ls)] = Front(ls[Len(ls)])] : ls \in ended \ {<<>>}}

SaRow(filename, score) == [filename |-> filename, SA_score |-> score]

\* __main__ (lines 236-246) on small tables with good and bad cells: lines
\* without a comma or with a third field, keys that float() rejects or that
\* only float() accepts, an SA score that is text or missing.
MainLines ==
    {Line(<<"7">>, <<"-", "7">>), Line(<<"x">>, <<"-", "7">>),
     Line(<<"7">>, <<"b", "a", "d">>), Line(<<"x">>, <<"1", "_", "0">>),
     Line(<<"x">>, <<"-", "8", ",", "z">>), <<"7", "\n">>}

MainSaRows ==
    {SaRow(<<"7">> \o Sdf, <<"1", ".", "5">>), SaRow(<<"y">>, <<"1", ".", "5">>),
     SaRow(<<"7">> \o Sdf, <<"b", "a", "d">>), SaRow(<<"x">>, <<>>)}

Init ==
    /\ InitCommon
    /\ pc = "main"
    /\ merged = <<>>
    /\ lines \in SeqsUpTo(MainLines, MaxLines)
    /\ sa_rows \in SeqsUpTo(MainSaRows, MaxSaRows)

Next ==
    \/ Postprocess
    \/ PostprocessFail
    \/ WriteFail
    \/ Merge
    \/ WarnNoMatch
    \/ Prepare
    \/ PrepareFail
    \/ StartScan
    \/ ScanAccept
    \/ ScanSkip
    \/ SavePareto

Spec == Init /\ [][Next]_vars

\* postprocess_vina_results on lines whose keys repeat, in several spellings,
\* differ in their second decimal, or are NaN, and on lines without a comma,
\* with a third field, with a quoted comma or with a quote left open.
RankLigands == {<<"7">>, <<"x">>}

RankAffs ==
    {<<"-", "7">>, <<"-", "7", ".", "0">>, <<"-", "7", ".", "2", "5">>,
     <<"-", "7", ".", "2", "1">>, <<"n", "a", "n">>, <<"b", "a", "d">>}

RankLines ==
    {Line(l, a) : l \in RankLigands, a \in RankAffs}
        \cup {<<"7", "\n">>, Line(<<"x">>, <<"-", "8", ",", "z">>),
              <<"\"", "x", ",", "y", "\"", "\n">>, Line(<<"x">>, <<"\"", "-", "7">>)}

InitRank ==
    /\ InitCommon
    /\ pc = "main"
    /\ merged = <<>>
    /\ lines \in FilesUpTo(RankLines, MaxLines)
    /\ sa_rows = <<>>

NextRank == Postprocess \/ PostprocessFail \/ WriteFail

SpecRank == InitRank /\ [][NextRank]_vars

\* The join, on identifiers in their several spellings, repeated or missing.
JoinLines ==
    {Line(<<"7">>, <<"-", "7">>),
     Line(<<"0", "7">>, <<"-", "7">>), Line(<<"4", "2">>, <<"-", "7">>),
     Line(<<"4", "2">> \o Sdf, <<"-", "8", ".", "5">>),
     Line(<<>>, <<"-", "7">>), Line(<<"7", ".", "0">>, <<"-", "7">>)}

JoinSaRows ==
    {SaRow(<<"7">> \o Sdf, <<"1", ".", "5">>),
     SaRow(<<"4", "2">> \o Sdf, <<"2">>), SaRow(<<"7", ".", "0">>, <<"2">>)}

InitJoin ==
    /\ InitCommon
    /\ pc = "main"
    /\ merged = <<>>
    /\ lines \in SeqsUpTo(JoinLines, MaxLines)
    /\ sa_rows \in SeqsUpTo(JoinSaRows, MaxSaRows)

NextJoin == Postprocess \/ Merge \/ WarnNoMatch

SpecJoin == InitJoin /\ [][NextJoin]_vars

\* The frontier (lines 147-182), on joins drawn directly: record i is the join
\* of the i-th ligand.  The scores are whole numbers, a missing SA_score, a
\* missing affinity and an infinite affinity.
Whole(n) == Number(1, n, 0)

Point(sa, aff) == [SA_score |-> sa, affinity |-> aff]

FrontierPoints ==
    {Point(Whole(1), Whole(5)), Point(Whole(2), Whole(3)), Point(Whole(2), Whole(8)),
     Point(Whole(4), Whole(1)), Point(Whole(1), Whole(1)), Point(Whole(4), Whole(3)),
     Point(NaN, Whole(1)), Point(Whole(2), NaN), Point(Whole(1), Infinity(1))}

\* The join of tables whose i-th rows share the identifier i.sdf.
MergedOf(vals) ==
    [i \in 1..Len(vals) |->
        [filename |-> IntToStr(i) \o Sdf, SA_score |-> vals[i].SA_score,
         ligand |-> IntToStr(i) \o Sdf, affinity |-> vals[i].affinity]]

InitFrontier ==
    /\ InitCommon
    /\ pc = "pareto"
    /\ lines = <<>>
    /\ sa_rows = <<>>
    /\ merged \in {MergedOf(vals) : vals \in SeqsUpTo(FrontierPoints, MaxMerged)}
    /\ merged # <<>>
    /\ PlotError(merged) = "none"

NextFrontier == StartScan \/ ScanAccept \/ ScanSkip \/ SavePareto

SpecFrontier == InitFrontier /\ [][NextFrontier]_vars

----------------------------------------------------------------------------
\* Properties of the frontier (SpecFrontier).

\* The (SA_score, affinity) pairs of a sequence of rows.
PairsOf(rows) == [i \in 1..Len(rows) |-> <<rows[i].SA_score, rows[i].affinity>>]

\* A pair comes strictly before another in the order (SA_score ascending,
\* affinity ascending), a missing value coming after every number.
PairBefore(a, b) ==
    IF ColEq(a[1], b[1]) THEN ColLt(a[2], b[2]) ELSE ColLt(a[1], b[1])

\* pts holds every row of m exactly once, under its index label.
IsArrangementOf(pts, m) ==
    /\ Len(pts) = Len(m)
    /\ {pts[i].idx : i \in 1..Len(pts)} = 1..Len(m)
    /\ \A i \in 1..Len(pts) :
          /\ pts[i].SA_score = m[pts[i].idx].SA_score
          /\ pts[i].affinity = m[pts[i].idx].affinity

\* The scan of the first n pairs of s, from a minimum of +infinity: a pair is
\* accepted when its affinity is strictly below the minimum, and is then the
\* minimum.
RECURSIVE StrictScan(_, _)
StrictScan(s, n) ==
    IF n = 0 THEN [front |-> <<>>, min |-> Infinity(1)]
    ELSE LET before == StrictScan(s, n - 1)
         IN  IF FLt(s[n][2], before.min)
             THEN [front |-> Append(before.front, s[n]), min |-> s[n][2]]
             ELSE before

Scenario ==
    <<Point(Whole(1), Whole(5)), Point(Whole(2), Whole(3)),
      Point(Whole(2), Whole(8)), Point(Whole(4), Whole(1))>>

ScenarioFrontier ==
    <<(<<Whole(1), Whole(5)>>), (<<Whole(2), Whole(3)>>), (<<Whole(4), Whole(1)>>)>>

\* C1: the frontier emitted is the one obtained by sorting the joined records
\* by (SA_score, affinity) ascending and scanning them once with a minimum
\* that starts at +infinity, a record being accepted iff its affinity is
\* strictly below the minimum, which it then becomes; records of identical
\* (SA_score, affinity) give at most one frontier point, and the records
\* (1,5),(2,3),(2,8),(4,1) give the frontier (1,5),(2,3),(4,1).
C1_FrontierIsStrictScan ==
    pc \in {"scan", "done"} =>
        LET s == PairsOf(pareto_points)
        IN  /\ IsArrangementOf(pareto_points, merged)
            /\ \A i, j \in 1..Len(s) : i < j => ~PairBefore(s[j], s[i])
            /\ pareto_front = StrictScan(s, pos).front
            /\ min_y = StrictScan(s, pos).min
            /\ \A i, j \in 1..Len(pareto_front) :
                  pareto_front[i] = pareto_front[j] => i = j
            /\ (pc = "done" /\ PairsOf(merged) = PairsOf(Scenario))
                  => pareto_front = ScenarioFrontier

C1_Witness ==
    /\ pc = "done"
    /\ PairsOf(merged) = PairsOf(Scenario)
    /\ pareto_front = ScenarioFrontier

\* C3: along the frontier, in the order its points are emitted, the SA_score
\* never decreases and the affinity never increases, and the Pareto CSV holds
\* the frontier rows in that order.
C3_FrontierMonotone ==
    /\ pc \in {"scan", "done"} =>
          \A k, l \in 1..Len(pareto_front) :
              k < l => /\ ~FLt(pareto_front[l][1], pareto_front[k][1])
                       /\ ~FLt(pareto_front[k][2], pareto_front[l][2])
    /\ pareto_csv.written => PairsOf(pareto_csv.rows) = pareto_front
    /\ (pc = "done" /\ pareto_front # <<>>) => pareto_csv.written

C3_Witness ==
    /\ pc = "done"
    /\ Len(pareto_front) >= 3
    /\ PairsOf(pareto_csv.rows) = pareto_front
    /\ FLt(merged[2].SA_score, merged[1].SA_score)

\* The index labels of the records left out of the frontier.
Excluded == (1..Len(merged)) \ {pareto_indices[k] : k \in 1..Len(pareto_indices)}

\* C4: once the scan is over, no record left out of the frontier has an
\* SA_score not above, and an affinity strictly below, those of a frontier point.
C4_FrontierMinimal ==
    pc = "done" =>
        \A e \in Excluded : \A k \in 1..Len(pareto_front) :
            ~(/\ FLe(merged[e].SA_score, pareto_front[k][1])
              /\ FLt(merged[e].affinity, pareto_front[k][2]))

C4_Witness ==
    /\ pc = "done"
    /\ Len(pareto_front) >= 2
    /\ \E e \in Excluded : \E k \in 1..Len(pareto_front) :
          /\ FEq(merged[e].SA_score, pareto_front[k][1])
          /\ FLt(pareto_front[k][2], merged[e].affinity)

\* Every score of the join is a finite number.
FiniteScores ==
    \A i \in 1..Len(merged) :
        merged[i].SA_score.k = "num" /\ merged[i].affinity.k = "num"

\* C10: a non-empty join of finite scores has a non-empty frontier; every
\* record left out is weakly dominated by a frontier point; the first frontier
\* point has the least SA_score of all records and the last one the least
\* affinity.
C10_FrontierCovers ==
    (pc = "done" /\ merged # <<>> /\ FiniteScores) =>
        /\ pareto_front # <<>>
        /\ \A e \in Excluded : \E k \in 1..Len(pareto_front) :
              /\ FLe(pareto_front[k][1], merged[e].SA_score)
              /\ FLe(pareto_front[k][2], merged[e].affinity)
        /\ \A i \in 1..Len(merged) :
              /\ FLe(pareto_front[1][1], merged[i].SA_score)
              /\ FLe(pareto_front[Len(pareto_front)][2], merged[i].affinity)

C10_Witness ==
    /\ pc = "done"
    /\ FiniteScores
    /\ Len(merged) = 4
    /\ Len(pareto_front) = 2
    /\ Cardinality(Excluded) = 2
    /\ FLt(pareto_front[1][1], pareto_front[2][1])

----------------------------------------------------------------------------
\* Properties of the ranking (SpecRank).

\* The rows read from the input lines, before the sort.
InputRows == ParseRows(FilterLines(lines))

\* The rows of a table whose key equals k, in the table's order.
RowsOfKey(rows, k) == SelectSeq(rows, LAMBDA r : FEq(SortKey(r), k))

\* C6: the rows written by postprocess_vina_results are in non-decreasing
\* order of the float value of affinity_kcal/mol, and rows of equal key are in
\* the order they had in the input.
C6_RankStable ==
    (ranked.written /\ raised = "none") =>
        /\ Len(ranked.rows) = Len(InputRows)
        /\ \A i, j \in 1..Len(ranked.rows) :
              i < j => ~FLt(SortKey(ranked.rows[j]), SortKey(ranked.rows[i]))
        /\ \A i \in 1..Len(InputRows) :
              RowsOfKey(ranked.rows, SortKey(InputRows[i]))
                  = RowsOfKey(InputRows, SortKey(InputRows[i]))

----------------------------------------------------------------------------
\* Properties of the join (SpecJoin).

\* How many entries of a sequence satisfy a test.
CountOf(seq, Test(_)) == Cardinality({i \in 1..Len(seq) : Test(seq[i])})

\* C2: every row of the join pairs a row of the SA frame and a row of the Vina
\* frame of equal normalized identifier; every identifier the two frames share
\* has a row; and a pair of rows occurring m times in one frame and n times in
\* the other occurs m*n times in the join, so an identifier does too.
C2_JoinCorrect ==
    pc \in {"merged", "done"} =>
        /\ \A k \in 1..Len(merged) :
              /\ merged[k].filename = merged[k].ligand
              /\ \E i \in 1..Len(sa_df) : \E j \in 1..Len(vina_df) :
                    /\ sa_df[i].filename = vina_df[j].ligand
                    /\ merged[k].filename = sa_df[i].filename
                    /\ merged[k].SA_score = sa_df[i].SA_score
                    /\ merged[k].ligand = vina_df[j].ligand
                    /\ merged[k].affinity = vina_df[j].affinity
        /\ \A i \in 1..Len(sa_df) : \A j \in 1..Len(vina_df) :
              sa_df[i].filename = vina_df[j].ligand =>
                 /\ \E k \in 1..Len(merged) : merged[k].filename = sa_df[i].filename
                 /\ CountOf(merged, LAMBDA r : r.filename = sa_df[i].filename)
                      = CountOf(sa_df, LAMBDA l : l.filename = sa_df[i].filename)
                          * CountOf(vina_df, LAMBDA r : r.ligand = sa_df[i].filename)
                 /\ CountOf(merged, LAMBDA r :
                                /\ r.SA_score = sa_df[i].SA_score
                                /\ r.filename = sa_df[i].filename
                                /\ r.affinity = vina_df[j].affinity)
                      = CountOf(sa_df, LAMBDA l : l = sa_df[i])
                          * CountOf(vina_df, LAMBDA r : r = vina_df[j])

C2_Witness ==
    /\ pc = "merged"
    /\ Len(merged) = 4
    /\ \A k \in 1..4 : merged[k].filename = <<"7">> \o Sdf
    /\ Len(sa_df) = 2
    /\ CountOf(vina_df, LAMBDA r : r.ligand = <<"7">> \o Sdf) = 2

\* str(x) of every cell of the ligand column as pd.read_csv returns it.
LigandStrs ==
    LET cells == WrittenCells(ranked.rows)
        col   == ReadIdColumn([j \in 1..Len(cells) |-> cells[j][1]])
    IN  [i \in 1..Len(col) |-> PyStr(col[i])]

\* C5: a ligand made of digits only is mapped to itself followed by ".sdf",
\* any other ligand to itself; mapping the result again changes nothing
\* ("42" gives "42.sdf", "42.sdf" gives "42.sdf"); a ligand "7" is joined with
\* the filename "7.sdf".
C5_NormalizeLigand ==
    pc \in {"merged", "done"} =>
        LET strs == LigandStrs
        IN  /\ Len(vina_df) = Len(ranked.rows)
            /\ \A i \in 1..Len(vina_df) :
                  LET raw  == strs[i]
                      norm == vina_df[i].ligand
                  IN  /\ IsDigit(raw) =>
                            /\ Len(norm) = Len(raw) + 4
                            /\ SubSeq(norm, 1, Len(raw)) = raw
                            /\ SubSeq(norm, Len(raw) + 1, Len(norm))
                                  = <<".", "s", "d", "f">>
                      /\ ~IsDigit(raw) => norm = raw
                      /\ NormalizeLigand([kind |-> "str", num |-> NaN, text |-> norm])
                            = norm
                      /\ raw = <<"4", "2">> => norm = <<"4", "2", ".", "s", "d", "f">>
                      /\ raw = <<"4", "2", ".", "s", "d", "f">>
                            => norm = <<"4", "2", ".", "s", "d", "f">>
                      /\ \A j \in 1..Len(sa_rows) :
                            (/\ raw = <<"7">>
                             /\ sa_df[j].filename = <<"7", ".", "s", "d", "f">>)
                            => \E k \in 1..Len(merged) :
                                  /\ merged[k].ligand = <<"7", ".", "s", "d", "f">>
                                  /\ merged[k].affinity = vina_df[i].affinity
                                  /\ merged[k].SA_score = sa_df[j].SA_score

C5_Witness ==
    /\ pc = "merged"
    /\ \E i, j \in 1..Len(vina_df) :
          /\ ranked.rows[i].ligand = <<"7">>
          /\ vina_df[i].ligand = <<"7", ".", "s", "d", "f">>
          /\ ranked.rows[j].ligand = <<"4", "2", ".", "s", "d", "f">>
          /\ vina_df[j].ligand = <<"4", "2", ".", "s", "d", "f">>
    /\ \E k \in 1..Len(merged) : merged[k].filename = <<"7", ".", "s", "d", "f">>

----------------------------------------------------------------------------
\* Properties of a whole run (Spec).

\* What a caller of plot_sa_vs_affinity can observe of its outcome.
Observable ==
    [stdout |-> stdout, raised |-> raised, pareto_csv |-> pareto_csv,
     plot_saved |-> plot_saved]

\* The outcome of plot_sa_vs_affinity on an SA table without rows.
EmptyInputObservable ==
    [stdout |-> PlotReport(MergeFrames(SaFrame(<<>>), vina_df)), raised |-> "none",
     pareto_csv |-> NoFile, plot_saved |-> FALSE]

\* A table read by the run has no data rows.
EmptyInput ==
    \/ lines = <<>>
    \/ /\ ranked.written
       /\ pc # "failed"
       /\ sa_rows = <<>> \/ ranked.rows = <<>>

\* The run is over, or the step that follows is one it can take.
Proceeds ==
    \/ pc = "done"
    \/ pc = "main" /\ RankOutcome(lines).raised = "none"
    \/ pc = "plot"
    \/ pc = "merged" /\ IsEmpty(merged)

\* C9: when a table has no data rows the join is empty, no frontier point is
\* emitted, no Pareto CSV is written, no exception is raised, and the run goes
\* on until it returns with the warning as its only output.
C9_EmptyInputNoError ==
    EmptyInput =>
        /\ raised = "none"
        /\ pc \in {"main", "plot", "merged", "done"}
        /\ merged = <<>>
        /\ pareto_front = <<>>
        /\ pareto_csv = NoFile
        /\ Proceeds
        /\ pc = "done" => Observable = EmptyInputObservable

C9_Witness ==
    /\ pc = "done"
    /\ sa_rows = <<>>
    /\ Len(ranked.rows) = 2
    /\ raised = "none"
    /\ stdout = <<NoMatchWarning>>

\* The two frames have rows and share no identifier.
KeysDisjoint ==
    /\ sa_df # <<>>
    /\ vina_df # <<>>
    /\ \A i \in 1..Len(sa_df) : \A j \in 1..Len(vina_df) :
          sa_df[i].filename # vina_df[j].ligand

\* C7: when the two tables share no normalized identifier the join is empty,
\* and what the caller observes differs from what it observes when a table
\* has no rows.
C7_MismatchDistinguishable ==
    (pc = "done" /\ KeysDisjoint) =>
        /\ merged = <<>>
        /\ Observable # EmptyInputObservable

\* The line holds a record whose key float() accepts.
KeyParses(line) ==
    /\ HasComma(line)
    /\ Len(ParseRows(<<line>>)) = 1
    /\ KeyFailure(ParseRows(<<line>>)[1]) = "none"

\* C8: a record whose key cannot be parsed makes the operation fail as a
\* whole: no ranked table and no frontier is written, and a ranked table that
\* is written holds every input record.
C8_AbortOnBadData ==
    /\ (\E i \in 1..Len(lines) : ~KeyParses(lines[i]))
          => (~ranked.written /\ ~pareto_csv.written)
    /\ (ranked.written /\ pc # "failed") => Len(ranked.rows) = Len(lines)
    /\ ~NumericColumn([i \in 1..Len(sa_rows) |-> sa_rows[i].SA_score])
          => ~pareto_csv.written

====
